---- MODULE Spec2Model ----
(***************************************************************************)
(* partnerutils/etl_utils.py: helpers that stage GeoJSON in an ArcGIS      *)
(* content store, append it to layers, publish scratch layers and look     *)
(* layers up by tag.  The calls into the SDK (gis.content.add, item.delete,*)
(* item.publish, layer.append, clone_items, add_to_definition, search) are *)
(* the environment: each may succeed or raise, and item.delete may also    *)
(* report failure through its boolean result.                              *)
(***************************************************************************)
EXTENDS Naturals, Sequences, FiniteSets, TLC

\* ---------------------------------------------------------------- bounds
MaxItems == 3          \* item ids the content store hands out in one run
MaxFeatures == 2       \* features in a GeoJSON payload
MaxSearch == 2         \* handles a search may return
BufferSize == 4        \* io.DEFAULT_BUFFER_SIZE, scaled to tokens

\* ------------------------------------------------------------- constants
DEFAULT_TITLE == "GeoJSON Utils POC"
DEFAULT_TAG == "geojson-utils-poc"

None == "<None>"       \* Python's None
NoExc == "<no exception>"
NotFound == 0          \* None where an item handle is expected

VARIABLES
    pc,              \* position of the running call
    op,              \* the public function the caller invoked
    uid_field,       \* argument uid_field
    item_options,    \* keyword options handed to add_geojson
    geojson,         \* argument geojson: the sequence of feature uids
    tags,            \* argument tags of get_existing_item
    store,           \* the content store: the set of items that exist
    indexes,         \* item id -> indexes on the item's first sub-layer
    nextId,          \* next item id the store hands out
    fp,              \* the temporary file of add_geojson
    item,            \* local item (the staged item), 0 when unbound
    lyr_item,        \* local lyr_item / cloned item, 0 when unbound
    result,          \* local result of append_to_layer
    exc,             \* the exception in flight
    raised,          \* SDK calls of the running call that raised
    outcome,         \* what the caller observed from the last call
    addCall,         \* arguments gis.content.add received
    appendCall,      \* arguments layer.append received
    deleteCalls,     \* item.delete invocations of the whole run
    definitionCalls, \* add_to_definition invocations of the running call
    searchCall,      \* query and result of gis.content.search
    created          \* item id -> the public call that created it, and its type

vars == <<pc, op, uid_field, item_options, geojson, tags, store, indexes,
          nextId, fp, item, lyr_item, result, exc, raised, outcome, addCall,
          appendCall, deleteCalls, definitionCalls, searchCall, created>>

\* ---------------------------------------------------------------- inputs
UidFields == {None, "", "uid"}
TagInputs == {None, "", "my-tag"}
OptionKeys == {"title", "tags", "type", "snippet"}
OptionValue(k) ==
    CASE k = "title" -> "My layer"
      [] k = "tags" -> "my-tag"
      [] k = "type" -> "Shapefile"
      [] OTHER -> "a snippet"
OptionMaps == {[k \in S |-> OptionValue(k)] : S \in SUBSET OptionKeys}
Payloads == UNION {[1..n -> {"a"}] : n \in 0..MaxFeatures}
EmptyMap == [k \in {} |-> ""]

\* ------------------------------------------------------- python helpers
\* bool(v) for None and strings
Truthy(v) == v # None /\ v # ""

\* dict.pop(key, default): the value popped
Pop(d, k, default) == IF k \in DOMAIN d THEN d[k] ELSE default

\* dict.pop(key, default): the dict left behind
Popped(d, k) == [x \in DOMAIN d \ {k} |-> d[x]]

RECURSIVE Join(_)
Join(fs) ==
    IF fs = <<>> THEN <<>>
    ELSE IF Len(fs) = 1 THEN <<fs[1]>>
    ELSE <<fs[1], ",">> \o Join(Tail(fs))

\* json.dumps(geojson) as a token sequence
Dumps(g) == <<"{">> \o Join(g) \o <<"}">>

\* fp.write(text) on a freshly opened buffered text file: what has reached
\* the file on disk when write returns (nothing unless the buffer overflows)
OnDiskAfterWrite(text) == IF Len(text) > BufferSize THEN text ELSE <<>>

NoFile == [exists |-> FALSE, written |-> <<>>, disk |-> <<>>]

\* NamedTemporaryFile(mode="w", suffix='.geojson') followed by fp.write
OpenAndWrite(text) ==
    [exists |-> TRUE, written |-> text, disk |-> OnDiskAfterWrite(text)]

\* a temporary file opened with delete=False survives its close
CloseKeepsFile(f) == [exists |-> TRUE, written |-> f.written, disk |-> f.written]

\* leaving the with block: the file is closed, which removes it
CloseFile(f) == [exists |-> FALSE, written |-> f.written, disk |-> <<>>]

\* the caller's options spread last, so that they win
ItemPropertiesCallerWins(rest, title, tgs) ==
    rest @@ ("type" :> "GeoJson" @@ "title" :> title @@ "tags" :> tgs)

\* the property dict built for gis.content.add
ItemProperties(rest, title, tgs) ==
    ("type" :> "GeoJson" @@ "title" :> title @@ "tags" :> tgs) @@ rest

\* upsert=bool(uid_field)
UpsertIfTruthy(uid) == uid # None /\ uid # ""

\* upsert=(uid_field != None)
Upsert(uid) == uid # None

\* if uid_field:
WantsIndex(uid) == Truthy(uid)

\* the index without its uniqueness flag set
NewIndexNotUnique(uid) ==
    [name |-> "External UID", fields |-> uid, isUnique |-> FALSE,
     description |-> "External UID for upsert operations"]

NewIndex(uid) ==
    [name |-> "External UID", fields |-> uid, isUnique |-> TRUE,
     description |-> "External UID for upsert operations"]

AddDict(uid) == [indexes |-> <<NewIndex(uid)>>]

\* t = tags if tags else DEFAULT_TAG
SearchTag(tgs) == IF Truthy(tgs) THEN tgs ELSE DEFAULT_TAG

SearchQuery(t) == "tags:\"" \o t \o "\" AND type:\"Feature Service\""

\* search_items[-1] if len(search_items) > 0 else None
LastOrNone(search_items) ==
    IF Len(search_items) > 0 THEN search_items[Len(search_items)] ELSE NotFound

\* search_items[0] if len(search_items) > 0 else None
FirstOrNone(search_items) ==
    IF Len(search_items) > 0 THEN search_items[1] ELSE NotFound

\* cleanup placed after the try body instead of in a finally block
CleanupOnlyOnSuccess(pending) == pending = NoExc

\* try/finally: the cleanup block runs whether or not the body raised
CleanupRuns(pending) == TRUE

\* a finally block that returns, which discards the exception in flight
FinallySwallows(pending, deleteResult) ==
    IF deleteResult = "raised" THEN "delete" ELSE NoExc

\* a cleanup whose own failure is suppressed while an exception is in flight
FinallyKeepsFirst(pending, deleteResult) ==
    IF pending # NoExc THEN pending
    ELSE IF deleteResult = "raised" THEN "delete" ELSE NoExc

\* the exception in flight after a finally block whose cleanup call ended
\* with deleteResult, entered with exception pending
AfterFinally(pending, deleteResult) ==
    IF deleteResult = "raised" THEN "delete" ELSE pending

DeleteResults == {"True", "False", "raised"}

NoCall == [called |-> FALSE]
NoOutcome == [op |-> "none", kind |-> "none", value |-> None]

\* ------------------------------------------------------------------ Init
Init ==
    /\ pc = "idle"
    /\ op = "none"
    /\ uid_field = None
    /\ item_options = EmptyMap
    /\ geojson = <<>>
    /\ tags = None
    /\ store = {}
    /\ indexes = [i \in {} |-> <<>>]
    /\ nextId = 1
    /\ fp = NoFile
    /\ item = 0
    /\ lyr_item = 0
    /\ result = None
    /\ exc = NoExc
    /\ raised = {}
    /\ outcome = NoOutcome
    /\ addCall = NoCall
    /\ appendCall = NoCall
    /\ deleteCalls = <<>>
    /\ definitionCalls = <<>>
    /\ searchCall = NoCall
    /\ created = [i \in {} |-> [by |-> "none", type |-> ""]]

\* a call starts with the locals unbound and no SDK call made yet
Enter(name, first, uid, opts, g) ==
    /\ pc = "idle"
    /\ pc' = first
    /\ op' = name
    /\ uid_field' = uid
    /\ item_options' = opts
    /\ geojson' = g
    /\ UNCHANGED <<tags, store, indexes, nextId, fp, item, lyr_item, result,
                   exc, raised, outcome, addCall, appendCall, deleteCalls,
                   definitionCalls, searchCall, created>>

\* the caller has the outcome; the finished call's frame is gone
caller_resumes ==
    /\ pc = "done"
    /\ pc' = "idle"
    /\ op' = "none"
    /\ uid_field' = None
    /\ item_options' = EmptyMap
    /\ geojson' = <<>>
    /\ tags' = None
    /\ fp' = NoFile
    /\ item' = 0
    /\ lyr_item' = 0
    /\ result' = None
    /\ exc' = NoExc
    /\ raised' = {}
    /\ outcome' = NoOutcome
    /\ addCall' = NoCall
    /\ appendCall' = NoCall
    /\ definitionCalls' = <<>>
    /\ searchCall' = NoCall
    /\ UNCHANGED <<store, indexes, nextId, deleteCalls, created>>

Raise(e) == [op |-> op, kind |-> "raise", value |-> e]
Return(v) == [op |-> op, kind |-> "return", value |-> v]

\* ------------------------------------------------------------ add_geojson
call_add_geojson ==
    \E opts \in OptionMaps, g \in Payloads :
        /\ nextId <= MaxItems
        /\ Enter("add_geojson", "add_geojson", None, opts, g)

\* lines 39-44: defaults popped, temp file opened and written
add_geojson_write ==
    /\ pc = "add_geojson"
    /\ fp' = OpenAndWrite(Dumps(geojson))
    /\ pc' = "content_add"
    /\ UNCHANGED <<op, uid_field, item_options, geojson, tags, store, indexes,
                   nextId, item, lyr_item, result, exc, raised, outcome,
                   addCall, appendCall, deleteCalls, definitionCalls,
                   searchCall, created>>

\* lines 45-50: gis.content.add(properties, data=fp.name)
content_add ==
    /\ pc = "content_add"
    /\ LET title == Pop(item_options, "title", DEFAULT_TITLE)
           tgs == Pop(Popped(item_options, "title"), "tags", DEFAULT_TAG)
           rest == Popped(Popped(item_options, "title"), "tags")
           props == ItemProperties(rest, title, tgs)
       IN /\ addCall' = [called |-> TRUE, properties |-> props,
                         fileExists |-> fp.exists, data |-> fp.disk]
          /\ \/ /\ item' = nextId
                /\ nextId' = nextId + 1
                /\ store' = store \cup {[id |-> nextId, type |-> props["type"]]}
                /\ created' = (nextId :> [by |-> op, type |-> props["type"]]) @@ created
                /\ UNCHANGED <<exc, raised>>
             \/ /\ exc' = "add"
                /\ raised' = raised \cup {"add"}
                /\ UNCHANGED <<item, nextId, store, created>>
    /\ pc' = "with_exit"
    /\ UNCHANGED <<op, uid_field, item_options, geojson, tags, indexes, fp,
                   lyr_item, result, outcome, appendCall, deleteCalls,
                   definitionCalls, searchCall>>

\* lines 50-52: the with block is left, add_geojson returns or raises
with_exit ==
    /\ pc = "with_exit"
    /\ fp' = CloseFile(fp)
    /\ IF exc # NoExc
         THEN /\ pc' = "done"
              /\ outcome' = Raise(exc)
         ELSE IF op = "add_geojson"
         THEN /\ pc' = "done"
              /\ outcome' = Return(item)
         ELSE /\ pc' = IF op = "create_scratch_layer" THEN "publish"
                       ELSE "layer_append"
              /\ UNCHANGED outcome
    /\ UNCHANGED <<op, uid_field, item_options, geojson, tags, store, indexes,
                   nextId, item, lyr_item, result, exc, raised, addCall,
                   appendCall, deleteCalls, definitionCalls, searchCall,
                   created>>

\* item.delete(): removes the item and returns True, or leaves it and
\* returns False or raises
ItemDelete(deleteResult) ==
    /\ deleteCalls' = Append(deleteCalls,
                            [id |-> item, deleted |-> deleteResult = "True"])
    /\ store' = IF deleteResult = "True"
                  THEN {it \in store : it.id # item} ELSE store
    /\ raised' = IF deleteResult = "raised"
                   THEN raised \cup {"delete"} ELSE raised

\* -------------------------------------------------------- append_to_layer
call_append_to_layer ==
    \E uid \in UidFields, g \in Payloads :
        /\ nextId <= MaxItems
        /\ Enter("append_to_layer", "add_geojson", uid,
                 "title" :> "Dataminr update", g)

\* lines 70-76: layer.append(...)
layer_append ==
    /\ pc = "layer_append"
    /\ appendCall' = [called |-> TRUE, item_id |-> item,
                      upload_format |-> "geojson",
                      upsert |-> Upsert(uid_field),
                      upsert_matching_field |-> uid_field]
    /\ \/ /\ result' = "append result"
          /\ UNCHANGED <<exc, raised>>
       \/ /\ exc' = "append"
          /\ raised' = raised \cup {"append"}
          /\ UNCHANGED result
    /\ pc' = "append_finally"
    /\ UNCHANGED <<op, uid_field, item_options, geojson, tags, store, indexes,
                   nextId, fp, item, lyr_item, outcome, addCall, deleteCalls,
                   definitionCalls, searchCall, created>>

\* lines 77-80 (and 97 for create_layer): cleanup, then return or raise
append_finally ==
    /\ pc = "append_finally"
    /\ pc' = "done"
    /\ IF CleanupRuns(exc)
         THEN \E d \in DeleteResults :
                /\ ItemDelete(d)
                /\ exc' = AfterFinally(exc, d)
         ELSE UNCHANGED <<deleteCalls, store, raised, exc>>
    /\ outcome' = IF exc' # NoExc THEN Raise(exc')
                  ELSE IF op = "create_layer" THEN Return(lyr_item)
                  ELSE Return(result)
    /\ UNCHANGED <<op, uid_field, item_options, geojson, tags, indexes, nextId,
                   fp, item, lyr_item, result, addCall, appendCall,
                   definitionCalls, searchCall, created>>

\* ----------------------------------------------------------- create_layer
call_create_layer ==
    \E g \in Payloads :
        /\ nextId + 1 <= MaxItems
        /\ Enter("create_layer", "clone_items", None,
                 "title" :> "Dataminr update", g)

\* lines 91-95: gis.content.clone_items([template_item], copy_data=False)
clone_items ==
    /\ pc = "clone_items"
    /\ \/ /\ lyr_item' = nextId
          /\ nextId' = nextId + 1
          /\ store' = store \cup {[id |-> nextId, type |-> "Feature Service"]}
          /\ indexes' = (nextId :> <<>>) @@ indexes
          /\ created' = (nextId :> [by |-> op, type |-> "Feature Service"]) @@ created
          /\ pc' = "add_geojson"
          /\ UNCHANGED <<exc, raised, outcome>>
       \/ /\ exc' = "clone_items"
          /\ raised' = raised \cup {"clone_items"}
          /\ pc' = "done"
          /\ outcome' = Raise("clone_items")
          /\ UNCHANGED <<lyr_item, nextId, store, indexes, created>>
    /\ UNCHANGED <<op, uid_field, item_options, geojson, tags, fp, item,
                   result, addCall, appendCall, deleteCalls, definitionCalls,
                   searchCall>>

\* --------------------------------------------------- create_scratch_layer
call_create_scratch_layer ==
    \E uid \in UidFields, opts \in OptionMaps, g \in Payloads :
        /\ nextId + 1 <= MaxItems
        /\ Enter("create_scratch_layer", "add_geojson", uid, opts, g)

\* line 115: item.publish()
publish ==
    /\ pc = "publish"
    /\ \/ /\ lyr_item' = nextId
          /\ nextId' = nextId + 1
          /\ store' = store \cup {[id |-> nextId, type |-> "Feature Service"]}
          /\ indexes' = (nextId :> <<>>) @@ indexes
          /\ created' = (nextId :> [by |-> op, type |-> "Feature Service"]) @@ created
          /\ UNCHANGED <<exc, raised>>
       \/ /\ exc' = "publish"
          /\ raised' = raised \cup {"publish"}
          /\ UNCHANGED <<lyr_item, nextId, store, indexes, created>>
    /\ pc' = "publish_finally"
    /\ UNCHANGED <<op, uid_field, item_options, geojson, tags, fp, item,
                   result, outcome, addCall, appendCall, deleteCalls,
                   definitionCalls, searchCall>>

\* lines 116-120 (and 131 when no index is wanted)
publish_finally ==
    /\ pc = "publish_finally"
    /\ IF CleanupRuns(exc)
         THEN \E d \in DeleteResults :
                /\ ItemDelete(d)
                /\ exc' = AfterFinally(exc, d)
         ELSE UNCHANGED <<deleteCalls, store, raised, exc>>
    /\ IF exc' # NoExc
         THEN /\ pc' = "done"
              /\ outcome' = Raise(exc')
         ELSE IF WantsIndex(uid_field)
         THEN /\ pc' = "add_to_definition"
              /\ UNCHANGED outcome
         ELSE /\ pc' = "done"
              /\ outcome' = Return(lyr_item)
    /\ UNCHANGED <<op, uid_field, item_options, geojson, tags, indexes, nextId,
                   fp, item, lyr_item, result, addCall, appendCall,
                   definitionCalls, searchCall, created>>

\* lines 121-131: lyr_item.layers[0].manager.add_to_definition(add_dict)
add_to_definition ==
    /\ pc = "add_to_definition"
    /\ definitionCalls' = Append(definitionCalls,
                                 [item |-> lyr_item, layer |-> 0,
                                  add_dict |-> AddDict(uid_field)])
    /\ \/ /\ indexes' = [indexes EXCEPT ![lyr_item] =
                            @ \o AddDict(uid_field).indexes]
          /\ outcome' = Return(lyr_item)
          /\ UNCHANGED <<exc, raised>>
       \/ /\ exc' = "add_to_definition"
          /\ raised' = raised \cup {"add_to_definition"}
          /\ outcome' = Raise("add_to_definition")
          /\ UNCHANGED indexes
    /\ pc' = "done"
    /\ UNCHANGED <<op, uid_field, item_options, geojson, tags, store, nextId,
                   fp, item, lyr_item, result, addCall, appendCall,
                   deleteCalls, searchCall, created>>

\* ------------------------------------------------------ get_existing_item
SearchResults == UNION {[1..n -> 1..MaxSearch] : n \in 0..MaxSearch}

\* lines 141-144
get_existing_item ==
    \E tgs \in TagInputs :
        /\ pc = "idle"
        /\ pc' = "done"
        /\ op' = "get_existing_item"
        /\ tags' = tgs
        /\ \/ \E search_items \in SearchResults :
                /\ searchCall' = [called |-> TRUE,
                                  query |-> SearchQuery(SearchTag(tgs)),
                                  items |-> search_items]
                /\ outcome' = [op |-> "get_existing_item", kind |-> "return",
                               value |-> FirstOrNone(search_items)]
                /\ UNCHANGED <<exc, raised>>
           \/ /\ searchCall' = [called |-> TRUE,
                                query |-> SearchQuery(SearchTag(tgs)),
                                items |-> <<>>]
              /\ outcome' = [op |-> "get_existing_item", kind |-> "raise",
                             value |-> "search"]
              /\ exc' = "search"
              /\ raised' = {"search"}
        /\ UNCHANGED <<uid_field, item_options, geojson, store, indexes,
                       nextId, fp, item, lyr_item, result, addCall, appendCall,
                       deleteCalls, definitionCalls, created>>

Next ==
    \/ caller_resumes
    \/ call_add_geojson
    \/ add_geojson_write
    \/ content_add
    \/ with_exit
    \/ call_append_to_layer
    \/ layer_append
    \/ append_finally
    \/ call_create_layer
    \/ clone_items
    \/ call_create_scratch_layer
    \/ publish
    \/ publish_finally
    \/ add_to_definition
    \/ get_existing_item

Spec == Init /\ [][Next]_vars

\* ---------------------------------------------------------------- claims
StagingOps == {"append_to_layer", "create_layer", "create_scratch_layer"}
StoreIds == {it.id : it \in store}
Running == pc \notin {"idle", "done"}
Finished == pc = "done"

\* the staging items (type GeoJson) created by the three layer operations
StagingItems ==
    {id \in DOMAIN created :
        created[id].type = "GeoJson" /\ created[id].by \in StagingOps}

\* the item.delete invocations made on item id
DeletesOf(id) == {i \in DOMAIN deleteCalls : deleteCalls[i].id = id}
DeleteInvoked(id) == DeletesOf(id) # {}
DeleteFailed(id) == \E i \in DeletesOf(id) : ~deleteCalls[i].deleted

\* C1 (as stated): the store holds no staging item created by a call that has
\* already returned or raised, whatever SDK calls failed.
C1_NoStagingItemOutlivesItsCall ==
    \A id \in StagingItems \cap StoreIds : Running /\ item = id

\* C1 (amended): item.delete is invoked exactly once on every staging item
\* before the call that created it returns or raises, and a staging item of a
\* finished call is still in the store only if that item.delete failed.
C1_StagingItemDeleteAttemptedOnce ==
    \A id \in StagingItems :
        ~(Running /\ item = id) =>
            /\ Cardinality(DeletesOf(id)) = 1
            /\ id \in StoreIds <=> DeleteFailed(id)

C1_Witness ==
    /\ Finished
    /\ op = "create_layer"
    /\ raised = {"append"}
    /\ item \in StagingItems
    /\ item \notin StoreIds
    /\ \E id \in StagingItems \cap StoreIds : id # item

AppendFailed ==
    /\ Finished
    /\ op \in {"append_to_layer", "create_layer"}
    /\ "append" \in raised

\* C2 (as stated): when layer.append fails, item.delete has been invoked on the
\* staged item and the caller observes exactly layer.append's failure.
C2_AppendFailurePropagatesUnchanged ==
    AppendFailed => DeleteInvoked(item) /\ outcome = Raise("append")

\* C2 (amended): when layer.append fails, item.delete has been invoked on the
\* staged item before the caller observes anything, the call raises, and the
\* failure observed is layer.append's unless item.delete raised as well, in
\* which case it is item.delete's.
C2_AppendFailureThenCleanup ==
    /\ AppendFailed =>
          /\ DeleteInvoked(item)
          /\ outcome = Raise(IF "delete" \in raised THEN "delete" ELSE "append")
    /\ ("append" \in raised /\ ~DeleteInvoked(item)) => outcome = NoOutcome

C2_Witness ==
    /\ AppendFailed
    /\ op = "append_to_layer"
    /\ DeleteInvoked(item)
    /\ "delete" \notin raised
    /\ outcome = Raise("append")

\* C3: when layer.append succeeds and item.delete fails (by raising or by
\* returning False), append_to_layer ends in a failure visible to the caller.
C3_CleanupFailureIsVisible ==
    (/\ Finished
     /\ op = "append_to_layer"
     /\ appendCall.called
     /\ "append" \notin raised
     /\ DeleteFailed(item)) => outcome.kind = "raise"

\* C4 (as stated): layer.append receives the staged item's id, format
\* "geojson", upsert on iff a key field was supplied and that field as the
\* matching field, and "supplied" is decided as create_scratch_layer decides
\* whether to add the index, the empty string included.
C4_UpsertDecisionSameAsIndexDecision ==
    appendCall.called =>
        /\ appendCall.item_id = item
        /\ appendCall.upload_format = "geojson"
        /\ appendCall.upsert = (uid_field # None)
        /\ appendCall.upsert_matching_field = uid_field
        /\ appendCall.upsert = WantsIndex(uid_field)

\* C4 (amended): layer.append receives the staged item's id, format "geojson",
\* upsert on iff uid_field is not None (an empty string counts as supplied)
\* and uid_field as the matching field; create_scratch_layer decides by
\* truthiness, so the two decisions differ exactly for the empty string.
C4_UpsertIffNotNone ==
    appendCall.called =>
        /\ appendCall.item_id = item
        /\ appendCall.upload_format = "geojson"
        /\ appendCall.upsert = (uid_field # None)
        /\ appendCall.upsert_matching_field = uid_field
        /\ (appendCall.upsert = WantsIndex(uid_field)) <=> (uid_field # "")

C4_Witness ==
    /\ appendCall.called
    /\ uid_field = ""
    /\ appendCall.upsert
    /\ appendCall.upsert_matching_field = ""

ScratchLayerReturned ==
    /\ Finished
    /\ op = "create_scratch_layer"
    /\ outcome.kind = "return"

\* C5: a successful create_scratch_layer with a non-empty key field made
\* exactly one add_to_definition call, on the first sub-layer of the layer it
\* returns, carrying exactly one index named "External UID" on the key field
\* with isUnique true; without a key field it made no such call.
C5_ExactlyOneUniqueIndex ==
    ScratchLayerReturned =>
        IF uid_field \notin {None, ""}
        THEN /\ Len(definitionCalls) = 1
             /\ definitionCalls[1].item = outcome.value
             /\ definitionCalls[1].layer = 0
             /\ Len(definitionCalls[1].add_dict.indexes) = 1
             /\ LET ix == definitionCalls[1].add_dict.indexes[1]
                IN /\ ix.name = "External UID"
                   /\ ix.fields = uid_field
                   /\ ix.isUnique = TRUE
             /\ indexes[outcome.value] = definitionCalls[1].add_dict.indexes
        ELSE /\ definitionCalls = <<>>
             /\ indexes[outcome.value] = <<>>

C5_Witness ==
    /\ ScratchLayerReturned
    /\ uid_field = "uid"
    /\ Len(definitionCalls) = 1
    /\ outcome.value \in StoreIds

SearchReturned ==
    /\ Finished
    /\ op = "get_existing_item"
    /\ outcome.kind = "return"

FirstMatchOrNotFound ==
    /\ (outcome.value = NotFound) <=> (searchCall.items = <<>>)
    /\ searchCall.items # <<>> => outcome.value = searchCall.items[1]

\* C6 (as stated): get_existing_item returns None exactly when the search is
\* empty, else the first match, and the query carries the caller's tag, or
\* the default tag when the tag is omitted.
C6_QueryUsesCallersTagUnlessOmitted ==
    SearchReturned =>
        /\ FirstMatchOrNotFound
        /\ searchCall.query =
              "tags:\"" \o (IF tags = None THEN "geojson-utils-poc" ELSE tags)
                        \o "\" AND type:\"Feature Service\""

\* C6 (amended): get_existing_item returns None exactly when the search is
\* empty, else the first match, and the query carries the caller's tag, or
\* the default tag when the tag is omitted or empty.
C6_QueryUsesDefaultTagWhenFalsy ==
    SearchReturned =>
        /\ FirstMatchOrNotFound
        /\ searchCall.query =
              "tags:\"" \o (IF tags \in {None, ""} THEN "geojson-utils-poc"
                            ELSE tags)
                        \o "\" AND type:\"Feature Service\""

C6_Witness ==
    /\ SearchReturned
    /\ tags = "my-tag"
    /\ Len(searchCall.items) = 2
    /\ searchCall.items[1] # searchCall.items[2]
    /\ outcome.value = searchCall.items[1]
    /\ searchCall.query = "tags:\"my-tag\" AND type:\"Feature Service\""

Recognized == {"type", "title", "tags"}

\* C7: the property map given to gis.content.add has type "GeoJson" whatever
\* the caller passed, the caller's title and tags or their defaults, every
\* other caller key with its value, and no further key.
C7_ItemPropertiesMerged ==
    addCall.called =>
        LET props == addCall.properties
        IN /\ DOMAIN props = DOMAIN item_options \cup Recognized
           /\ props["type"] = "GeoJson"
           /\ props["title"] = IF "title" \in DOMAIN item_options
                                 THEN item_options["title"]
                                 ELSE "GeoJSON Utils POC"
           /\ props["tags"] = IF "tags" \in DOMAIN item_options
                                THEN item_options["tags"]
                                ELSE "geojson-utils-poc"
           /\ \A k \in DOMAIN item_options \ Recognized :
                  props[k] = item_options[k]

C7_Witness ==
    /\ addCall.called
    /\ DOMAIN item_options = {"type", "snippet", "tags"}
    /\ addCall.properties["type"] = "GeoJson"
    /\ addCall.properties["title"] = "GeoJSON Utils POC"

\* C8: the temporary file exists from before gis.content.add is called until
\* after it has returned or raised, is gone once add_geojson has returned or
\* raised, and a failure of gis.content.add reaches the caller unchanged.
C8_TempFileScopedToAdd ==
    /\ pc \in {"content_add", "with_exit"} => fp.exists
    /\ addCall.called => addCall.fileExists
    /\ (addCall.called /\ pc # "with_exit") => ~fp.exists
    /\ (Finished /\ "add" \in raised) => outcome = Raise("add")

C8_Witness ==
    /\ Finished
    /\ op = "add_geojson"
    /\ "add" \in raised
    /\ addCall.fileExists
    /\ ~fp.exists

InScratch == op = "create_scratch_layer"

\* C9 (as stated): in create_scratch_layer the staged item is deleted after
\* the publish attempt and before any index addition; a publish failure
\* propagates with the item deleted and no add_to_definition call; an
\* add_to_definition failure propagates with the item deleted and the layer
\* left in the store without the index.
C9_StagedItemDeletedAroundPublish ==
    InScratch =>
        /\ (pc = "add_to_definition" \/ definitionCalls # <<>>) =>
              item \notin StoreIds
        /\ (Finished /\ "publish" \in raised) =>
              /\ item \notin StoreIds
              /\ definitionCalls = <<>>
              /\ outcome = Raise("publish")
        /\ (Finished /\ "add_to_definition" \in raised) =>
              /\ outcome = Raise("add_to_definition")
              /\ item \notin StoreIds
              /\ lyr_item \in StoreIds
              /\ indexes[lyr_item] = <<>>

\* C9 (amended): in create_scratch_layer item.delete is invoked on the staged
\* item after the publish attempt and before any index addition; after a
\* publish failure add_to_definition is never invoked and the call raises the
\* publish failure, or item.delete's failure when that raised too; an
\* add_to_definition failure propagates with item.delete already invoked and
\* the layer left in the store without the index.  The staged item is gone
\* at those points exactly when its item.delete succeeded.
C9_DeleteInvokedAroundPublish ==
    InScratch =>
        /\ DeleteInvoked(item) => pc \in {"add_to_definition", "done"}
        /\ (pc = "add_to_definition" \/ definitionCalls # <<>>) =>
              /\ DeleteInvoked(item)
              /\ "publish" \notin raised
              /\ item \notin StoreIds <=> ~DeleteFailed(item)
        /\ (Finished /\ "publish" \in raised) =>
              /\ DeleteInvoked(item)
              /\ definitionCalls = <<>>
              /\ outcome =
                    Raise(IF "delete" \in raised THEN "delete" ELSE "publish")
              /\ item \notin StoreIds <=> ~DeleteFailed(item)
        /\ (Finished /\ "add_to_definition" \in raised) =>
              /\ outcome = Raise("add_to_definition")
              /\ DeleteInvoked(item)
              /\ item \notin StoreIds <=> ~DeleteFailed(item)
              /\ lyr_item \in StoreIds
              /\ indexes[lyr_item] = <<>>

C9_Witness ==
    /\ InScratch
    /\ Finished
    /\ raised = {"add_to_definition"}
    /\ item \notin StoreIds
    /\ lyr_item \in StoreIds
    /\ indexes[lyr_item] = <<>>

\* C10: when gis.content.add is invoked with the temp file's path, the file
\* on disk holds the complete serialization of the payload, whatever its size.
C10_FileCompleteAtAdd ==
    addCall.called => addCall.data = Dumps(geojson)
====
